---- MODULE Spec2Model ----
(***************************************************************************)
(* Model of the rule engine (ruleengine.go, config.go).                    *)
(*                                                                         *)
(* The expression engine (CEL) is external.  A compiled program is named   *)
(* by the key of the rule it was compiled from; the result of evaluating   *)
(* it is a function of the context only, so the caller's context carries,  *)
(* under the key "user", the outcome of every expression on it:            *)
(*   "T"  boolean true        "F"  boolean false                           *)
(*   "N"  a non-boolean value "E"  an evaluation (runtime) error           *)
(* Durations are in milliseconds and are left out of the results.          *)
(***************************************************************************)
EXTENDS Integers, Sequences, FiniteSets, TLC

VARIABLES config, engine, context, last, running

vars == <<config, engine, context, last, running>>

----------------------------------------------------------------------------
(* Bounds *)

\* longest list of rule names of a ruleset
MaxRulesetLen == 2

\* number of rules of the tables the ancestor walk is run on
MaxRules == 3

\* number of calls of SetContext while callers share the engine
MaxSetContexts == 2

----------------------------------------------------------------------------
(* Values *)

Outcomes == {"T", "F", "N", "E"}

\* errors: the nil error and error values, by kind and the name they mention
NoErr == [kind |-> "nil", name |-> ""]

Err(k, n) == [kind |-> k, name |-> n]

\* Go maps: a nil map reads as empty and panics on assignment
NilMap == [isNil |-> TRUE, kv |-> <<>>]

MakeMap(f) == [isNil |-> FALSE, kv |-> f]

MapHas(m, k) == k \in DOMAIN m.kv

MapPut(f, k, v) == [x \in (DOMAIN f) \cup {k} |-> IF x = k THEN v ELSE f[x]]

\* MapMerge deleting the keys that already hold the value of src
MapMergeDropsEqual(dst, src) ==
    [isNil |-> dst.isNil,
     kv    |-> [x \in ((DOMAIN dst.kv) \cup (DOMAIN src.kv))
                      \ {y \in (DOMAIN dst.kv) \cap (DOMAIN src.kv) :
                             dst.kv[y] = src.kv[y]} |->
                   IF x \in DOMAIN src.kv THEN src.kv[x] ELSE dst.kv[x]]]

\* for k, v := range src { dst[k] = v }
MapMerge(dst, src) ==
    [isNil |-> dst.isNil,
     kv    |-> [x \in (DOMAIN dst.kv) \cup (DOMAIN src.kv) |->
                   IF x \in DOMAIN src.kv THEN src.kv[x] ELSE dst.kv[x]]]

selectorAnd == "AND"

selectorOr == "OR"

ZeroRuleResult == [RuleName |-> "", Passed |-> FALSE, Error |-> NoErr]

ZeroRulesetResult ==
    [RulesetName |-> "", Passed |-> FALSE, RuleResults |-> <<>>, Error |-> NoErr]

----------------------------------------------------------------------------
(* Configuration: config.go *)

\* time.ParseDuration of the strings the policies use, in milliseconds;
\* "abc" does not parse
ParseDuration(s) ==
    CASE s = "10ms" -> [ok |-> TRUE,  d |-> 10]
      [] s = "0s"   -> [ok |-> TRUE,  d |-> 0]
      [] s = "-1s"  -> [ok |-> TRUE,  d |-> -1000]
      [] OTHER      -> [ok |-> FALSE, d |-> 0]

DefaultMaxExecutionTime == 5000

ApplyEnvironment(rc, environment) ==
    IF environment \in DOMAIN rc.Environments
    THEN LET envConfig == rc.Environments[environment]
             gPanic == /\ ~envConfig.Globals.isNil
                       /\ DOMAIN envConfig.Globals.kv # {}
                       /\ rc.Globals.isNil
             mPanic == /\ ~envConfig.ErrorHandling.CustomErrorMessages.isNil
                       /\ DOMAIN envConfig.ErrorHandling.CustomErrorMessages.kv # {}
                       /\ rc.ErrorHandling.CustomErrorMessages.isNil
             globals == IF envConfig.Globals.isNil
                        THEN rc.Globals
                        ELSE MapMerge(rc.Globals, envConfig.Globals)
             policyName == IF envConfig.ErrorHandling.ExecutionPolicy # ""
                           THEN envConfig.ErrorHandling.ExecutionPolicy
                           ELSE rc.ErrorHandling.ExecutionPolicy
             msgs == IF envConfig.ErrorHandling.CustomErrorMessages.isNil
                     THEN rc.ErrorHandling.CustomErrorMessages
                     ELSE MapMerge(rc.ErrorHandling.CustomErrorMessages,
                                   envConfig.ErrorHandling.CustomErrorMessages)
         IN  IF gPanic
             THEN [panic |-> TRUE, rc |-> rc]
             ELSE IF mPanic
                  THEN [panic |-> TRUE,
                        rc |-> [rc EXCEPT !.Globals = globals,
                                          !.ErrorHandling.ExecutionPolicy = policyName]]
                  ELSE [panic |-> FALSE,
                        rc |-> [rc EXCEPT !.Globals = globals,
                                          !.ErrorHandling =
                                              [ExecutionPolicy     |-> policyName,
                                               CustomErrorMessages |-> msgs]]]
    ELSE [panic |-> FALSE, rc |-> rc]

\* the default policy
DefaultPolicy ==
    [StopOnFailure |-> TRUE, MaxExecutionTime |-> DefaultMaxExecutionTime]

\* PolicyNotFound resolving an unknown name to the default policy
PolicyNotFoundUsesDefault(default, name) ==
    [policy |-> default, err |-> NoErr]

\* the return for a name that is not in the policy table
PolicyNotFound(default, name) ==
    [policy |-> default, err |-> Err("policy_not_found", name)]

\* InvalidDuration with StopOnFailure assigned before the duration is parsed
InvalidDurationAfterStopOnFailure(default, configPolicy, name) ==
    [policy |-> [default EXCEPT !.StopOnFailure = configPolicy.StopOnFailure],
     err    |-> Err("invalid_duration", name)]

\* the return for a max_execution_time that does not parse
InvalidDuration(default, configPolicy, name) ==
    [policy |-> default, err |-> Err("invalid_duration", name)]

\* FoundPolicy keeping the StopOnFailure of the default
FoundPolicyKeepsDefaultStop(default, configPolicy, dur) ==
    [policy |-> [StopOnFailure    |-> default.StopOnFailure,
                 MaxExecutionTime |-> IF configPolicy.MaxExecutionTime # ""
                                      THEN dur.d ELSE default.MaxExecutionTime],
     err    |-> NoErr]

\* the return for a policy that is found and whose duration is empty or parses
FoundPolicy(default, configPolicy, dur) ==
    [policy |-> [StopOnFailure    |-> configPolicy.StopOnFailure,
                 MaxExecutionTime |-> IF configPolicy.MaxExecutionTime # ""
                                      THEN dur.d ELSE default.MaxExecutionTime],
     err    |-> NoErr]

GetExecutionPolicy(rc) ==
    LET default == DefaultPolicy
        name == rc.ErrorHandling.ExecutionPolicy
    IN  IF name \in DOMAIN rc.ExecutionPolicies
        THEN LET configPolicy == rc.ExecutionPolicies[name]
                 dur == ParseDuration(configPolicy.MaxExecutionTime)
             IN  IF configPolicy.MaxExecutionTime # "" /\ ~dur.ok
                 THEN InvalidDuration(default, configPolicy, name)
                 ELSE FoundPolicy(default, configPolicy, dur)
        ELSE PolicyNotFound(default, name)

----------------------------------------------------------------------------
(* Construction: ruleengine.go *)

\* env.Compile / env.Program: the expression "bad(" does not compile
compileExpression(expression) ==
    IF expression = "bad(" THEN Err("compile", expression) ELSE NoErr

RECURSIVE ParentsWalkNoCycleError(_, _, _, _)
\* ParentsWalk ending the chain, without an error, at a name already visited
ParentsWalkNoCycleError(rules, current, parents, visited) ==
    IF current.Extends = "" \/ current.Extends \in visited
    THEN [parents |-> parents, err |-> NoErr]
    ELSE IF current.Extends \notin DOMAIN rules
         THEN [parents |-> <<>>, err |-> Err("extends_not_found", current.Extends)]
         ELSE ParentsWalkNoCycleError(rules, rules[current.Extends],
                                      Append(parents, current.Extends),
                                      visited \cup {current.Extends})

RECURSIVE ParentsWalkNoDanglingError(_, _, _, _)
\* ParentsWalk ending the chain, without an error, at a name that is not in
\* the rule table
ParentsWalkNoDanglingError(rules, current, parents, visited) ==
    IF current.Extends = ""
    THEN [parents |-> parents, err |-> NoErr]
    ELSE IF current.Extends \in visited
         THEN [parents |-> <<>>, err |-> Err("circular", current.Extends)]
         ELSE IF current.Extends \notin DOMAIN rules
              THEN [parents |-> Append(parents, current.Extends), err |-> NoErr]
              ELSE ParentsWalkNoDanglingError(rules, rules[current.Extends],
                                              Append(parents, current.Extends),
                                              visited \cup {current.Extends})

RECURSIVE ParentsWalkDepthLimit(_, _, _, _)
\* ParentsWalk finding cycles by the length of the chain instead of by the
\* names visited
ParentsWalkDepthLimit(rules, current, parents, visited) ==
    IF current.Extends = ""
    THEN [parents |-> parents, err |-> NoErr, steps |-> Len(parents)]
    ELSE IF Len(parents) > 2 * Cardinality(DOMAIN rules)
         THEN [parents |-> <<>>, err |-> Err("circular", current.Extends),
               steps |-> Len(parents) + 1]
         ELSE IF current.Extends \notin DOMAIN rules
              THEN [parents |-> <<>>, err |-> Err("extends_not_found", current.Extends),
                    steps |-> Len(parents) + 1]
              ELSE ParentsWalkDepthLimit(rules, rules[current.Extends],
                                         Append(parents, current.Extends),
                                         visited \cup {current.Extends})

RECURSIVE ParentsWalk(_, _, _, _)
\* the loop of getRuleParents: one iteration per call; steps counts the
\* iterations begun, one for every parent appended and one more for the
\* iteration that returns an error
ParentsWalk(rules, current, parents, visited) ==
    IF current.Extends = ""
    THEN [parents |-> parents, err |-> NoErr, steps |-> Len(parents)]
    ELSE IF current.Extends \in visited
         THEN [parents |-> <<>>, err |-> Err("circular", current.Extends),
               steps |-> Len(parents) + 1]
         ELSE IF current.Extends \notin DOMAIN rules
              THEN [parents |-> <<>>, err |-> Err("extends_not_found", current.Extends),
                    steps |-> Len(parents) + 1]
              ELSE ParentsWalk(rules, rules[current.Extends],
                               Append(parents, current.Extends),
                               visited \cup {current.Extends})

getRuleParents(rules, rule) == ParentsWalk(rules, rule, <<>>, {})

\* CompileOne going on after an expression that does not compile
CompileOneIgnoresCompileError(rc, name) ==
    LET p == getRuleParents(rc.Rules, rc.Rules[name])
    IN  IF p.err # NoErr
        THEN [err |-> Err(p.err.kind, name), parents |-> <<>>]
        ELSE [err |-> NoErr, parents |-> p.parents]

\* what one iteration of the loop of compileRules does for the rule `name`
CompileOne(rc, name) ==
    LET rule == rc.Rules[name]
        cerr == compileExpression(rule.Expression)
        p    == getRuleParents(rc.Rules, rule)
    IN  IF cerr # NoErr
        THEN [err |-> Err("compile", name), parents |-> <<>>]
        ELSE IF p.err # NoErr
             THEN [err |-> Err(p.err.kind, name), parents |-> <<>>]
             ELSE [err |-> NoErr, parents |-> p.parents]

\* compileRules ranges over the rule map in an unspecified order and returns
\* at the first rule that fails: any failing rule can be that one
compileRules(rc) ==
    LET failing == {n \in DOMAIN rc.Rules : CompileOne(rc, n).err # NoErr}
    IN  IF failing = {}
        THEN {[err      |-> NoErr,
               programs |-> DOMAIN rc.Rules,
               parents  |-> [n \in DOMAIN rc.Rules |-> CompileOne(rc, n).parents]]}
        ELSE {[err |-> CompileOne(rc, n).err, programs |-> {}, parents |-> <<>>] :
                 n \in failing}

NoEngine(status, err) ==
    [status |-> status, err |-> err, programs |-> {}, parents |-> <<>>,
     policy |-> [StopOnFailure |-> FALSE, MaxExecutionTime |-> 0]]

----------------------------------------------------------------------------
(* Evaluation: ruleengine.go *)

\* SetContext with the caller's values kept under the reserved keys
buildContextCallerWins(rc, ctx) ==
    LET put(f, k, v) == IF k \in DOMAIN f THEN f ELSE MapPut(f, k, v)
    IN  put(put(put(ctx, "globals", rc.Globals), "now", "now()"),
            "timestamp", "timestamp(s)")

\* the context SetContext leaves in the engine: ctx with globals, now and
\* timestamp assigned
buildContext(rc, ctx) ==
    MapPut(MapPut(MapPut(ctx, "globals", rc.Globals), "now", "now()"),
           "timestamp", "timestamp(s)")

\* ContextRead with a copy of the context taken when the call began
ContextReadSnapshot(shared, start) == start

\* the context a program is evaluated against: re.context as it is at the
\* time of the Eval, not a copy taken when the call began (start)
ContextRead(shared, start) == shared

\* program.Eval(re.context) of the program compiled from the rule `program`
Eval(program, ctx) ==
    IF "user" \in DOMAIN ctx THEN ctx["user"][program] ELSE "E"

\* AllRules with the rule itself ahead of its ancestors
AllRulesSelfFirst(eng, ruleName) == <<ruleName>> \o eng.parents[ruleName]

\* allRules := append(re.parents[ruleName], ruleName)
AllRules(eng, ruleName) == Append(eng.parents[ruleName], ruleName)

\* BoolOf with the boolean's value ignored: any boolean result passes
BoolOfIgnoresValue(out, passed) ==
    IF out \in {"T", "F"} THEN TRUE ELSE passed

\* if boolVal, ok := value.(bool); ok { passed = boolVal }
BoolOf(out, passed) ==
    IF out = "T" THEN TRUE ELSE IF out = "F" THEN FALSE ELSE passed

\* RuleErrorMessage without the lookup of the custom message
RuleErrorMessageGeneric(rc, ruleName, passed) ==
    IF passed THEN NoErr ELSE Err("rule_did_not_pass", ruleName)

\* the error of a rule that did not pass without a runtime error
RuleErrorMessage(rc, ruleName, passed) ==
    IF passed
    THEN NoErr
    ELSE IF MapHas(rc.ErrorHandling.CustomErrorMessages, ruleName)
         THEN Err("custom", rc.ErrorHandling.CustomErrorMessages.kv[ruleName])
         ELSE Err("rule_did_not_pass", ruleName)

\* RuntimeFailure with the runtime error replaced by the rule's message
RuntimeFailureOverwritten(rc, ruleName, r) ==
    [RuleName |-> ruleName, Passed |-> FALSE,
     Error |-> RuleErrorMessage(rc, ruleName, FALSE)]

\* RuntimeFailure named after the rule whose program raised the error
RuntimeFailureNamesProgram(rc, ruleName, r) ==
    [RuleName |-> r, Passed |-> FALSE, Error |-> Err("runtime", r)]

\* the result returned when the program of rule r raises a runtime error
RuntimeFailure(rc, ruleName, r) ==
    [RuleName |-> ruleName, Passed |-> FALSE, Error |-> Err("runtime", r)]

RECURSIVE RuleLoop(_, _, _, _, _, _, _)
\* the loop of EvaluateRule over allRules, from position i on
RuleLoop(rc, eng, ctx, ruleName, i, passed, evals) ==
    LET allRules == AllRules(eng, ruleName)
    IN  IF i > Len(allRules)
        THEN [res   |-> [RuleName |-> ruleName, Passed |-> passed,
                         Error |-> RuleErrorMessage(rc, ruleName, passed)],
              err   |-> NoErr,
              evals |-> evals]
        ELSE LET r == allRules[i]
             IN  IF r \notin eng.programs
                 THEN [res |-> ZeroRuleResult, err |-> Err("program_not_found", ruleName),
                       evals |-> evals]
                 ELSE LET out == Eval(r, ctx)
                          ev  == Append(evals, r)
                          p   == BoolOf(out, passed)
                      IN  IF out = "E"
                          THEN [res   |-> RuntimeFailure(rc, ruleName, r),
                                err   |-> NoErr,
                                evals |-> ev]
                          ELSE IF ~p
                               THEN [res   |-> [RuleName |-> ruleName, Passed |-> FALSE,
                                                Error |-> RuleErrorMessage(rc, ruleName, FALSE)],
                                     err   |-> NoErr,
                                     evals |-> ev]
                               ELSE RuleLoop(rc, eng, ctx, ruleName, i + 1, p, ev)

\* EvaluateRuleOp returning a named result for a rule that is not found
EvaluateRuleOpNamed(rc, eng, ctx, ruleName) ==
    IF ruleName \notin DOMAIN rc.Rules
    THEN [res |-> [ZeroRuleResult EXCEPT !.RuleName = ruleName],
          err |-> Err("rule_not_found", ruleName), evals |-> <<>>]
    ELSE RuleLoop(rc, eng, ctx, ruleName, 1, FALSE, <<>>)

EvaluateRuleOp(rc, eng, ctx, ruleName) ==
    IF ruleName \notin DOMAIN rc.Rules
    THEN [res |-> ZeroRuleResult, err |-> Err("rule_not_found", ruleName), evals |-> <<>>]
    ELSE RuleLoop(rc, eng, ctx, ruleName, 1, FALSE, <<>>)

\* FailFast without the test of the selector
FailFastAnySelector(ruleset, ruleResult, err, policy) ==
    /\ (~ruleResult.Passed \/ err # NoErr)
    /\ policy.StopOnFailure

\* FailFast without the test of the policy
FailFastAnyPolicy(ruleset, ruleResult, err, policy) ==
    /\ ruleset.Selector # selectorOr
    /\ (~ruleResult.Passed \/ err # NoErr)

\* the fail-fast test after each member rule
FailFast(ruleset, ruleResult, err, policy) ==
    /\ ruleset.Selector # selectorOr
    /\ (~ruleResult.Passed \/ err # NoErr)
    /\ policy.StopOnFailure

\* Combine with the default case falling to the OR logic
CombineDefaultOr(selector, results) ==
    IF selector = selectorAnd
    THEN \A n \in DOMAIN results : results[n].Passed
    ELSE \E n \in DOMAIN results : results[n].Passed

\* the switch on the selector over the recorded results
Combine(selector, results) ==
    IF selector = selectorOr
    THEN \E n \in DOMAIN results : results[n].Passed
    ELSE \A n \in DOMAIN results : results[n].Passed

\* RulesetErrorMessage set whether the ruleset passed or not
RulesetErrorMessageAlways(rc, rulesetName, passed) ==
    IF MapHas(rc.ErrorHandling.CustomErrorMessages, rulesetName)
    THEN Err("custom", rc.ErrorHandling.CustomErrorMessages.kv[rulesetName])
    ELSE Err("ruleset_did_not_pass", rulesetName)

RulesetErrorMessage(rc, rulesetName, passed) ==
    IF passed
    THEN NoErr
    ELSE IF MapHas(rc.ErrorHandling.CustomErrorMessages, rulesetName)
         THEN Err("custom", rc.ErrorHandling.CustomErrorMessages.kv[rulesetName])
         ELSE Err("ruleset_did_not_pass", rulesetName)

RECURSIVE RulesetLoop(_, _, _, _, _, _)
\* the loop of EvaluateRuleset over ruleset.Rules, from position i on;
\* acc.calls lists the names EvaluateRule was called with
RulesetLoop(rc, eng, ctx, ruleset, i, acc) ==
    IF i > Len(ruleset.Rules)
    THEN acc
    ELSE LET ruleRef == ruleset.Rules[i]
             r    == EvaluateRuleOp(rc, eng, ctx, ruleRef)
             acc2 == [results |-> MapPut(acc.results, ruleRef, r.res),
                      calls   |-> Append(acc.calls, ruleRef),
                      evals   |-> acc.evals \o r.evals]
         IN  IF FailFast(ruleset, r.res, r.err, eng.policy)
             THEN acc2
             ELSE RulesetLoop(rc, eng, ctx, ruleset, i + 1, acc2)

EvaluateRulesetOp(rc, eng, ctx, rulesetName) ==
    IF rulesetName \notin DOMAIN rc.Rulesets
    THEN [res |-> ZeroRulesetResult, err |-> Err("ruleset_not_found", rulesetName),
          calls |-> <<>>, evals |-> <<>>]
    ELSE LET ruleset == rc.Rulesets[rulesetName]
             acc     == RulesetLoop(rc, eng, ctx, ruleset, 1,
                                    [results |-> <<>>, calls |-> <<>>, evals |-> <<>>])
             passed  == Combine(ruleset.Selector, acc.results)
         IN  [res   |-> [RulesetName |-> rulesetName,
                         Passed      |-> passed,
                         RuleResults |-> acc.results,
                         Error       |-> RulesetErrorMessage(rc, rulesetName, passed)],
              err   |-> NoErr,
              calls |-> acc.calls,
              evals |-> acc.evals]

\* TimeoutReturn handing back an empty map instead of the results so far
TimeoutReturnDropsResults(results, rulesetName) ==
    [all |-> <<>>, err |-> Err("timeout", rulesetName)]

\* case <-ticker.C: return results, fmt.Errorf("timed out waiting for ruleset %s", rulesetName)
TimeoutReturn(results, rulesetName) ==
    [all |-> results, err |-> Err("timeout", rulesetName)]

\* BatchStops ending the batch at a ruleset that does not pass
BatchStopsOnFailure(result, err) == err # NoErr \/ ~result.Passed

\* if err != nil { return results, err }
BatchStops(result, err) == err # NoErr

RECURSIVE BatchLoopPreemptive(_, _, _, _, _, _, _)
\* BatchLoop with a deadline that interrupts: the ruleset that is running
\* when the deadline elapses is given up and not recorded
BatchLoopPreemptive(rc, eng, ctx, order, i, fired, results) ==
    IF i > Len(order)
    THEN [all |-> results, err |-> NoErr]
    ELSE IF fired = i \/ fired = i + 1
         THEN TimeoutReturn(results, order[i])
         ELSE LET r == EvaluateRulesetOp(rc, eng, ctx, order[i])
                  results2 == MapPut(results, order[i], r.res)
              IN  IF BatchStops(r.res, r.err)
                  THEN [all |-> results2, err |-> r.err]
                  ELSE BatchLoopPreemptive(rc, eng, ctx, order, i + 1, fired, results2)

RECURSIVE BatchLoop(_, _, _, _, _, _, _)
\* the loop of EvaluateAllRulesets over the rulesets in the order `order` of
\* the map iteration, from the i-th on; fired is the iteration whose select
\* is the first to find a tick in ticker.C, 0 when none does
BatchLoop(rc, eng, ctx, order, i, fired, results) ==
    IF i > Len(order)
    THEN [all |-> results, err |-> NoErr]
    ELSE IF fired = i
         THEN TimeoutReturn(results, order[i])
         ELSE LET r == EvaluateRulesetOp(rc, eng, ctx, order[i])
                  results2 == MapPut(results, order[i], r.res)
              IN  IF BatchStops(r.res, r.err)
                  THEN [all |-> results2, err |-> r.err]
                  ELSE BatchLoop(rc, eng, ctx, order, i + 1, fired, results2)

\* time.NewTicker panics for a duration that is not positive
EvaluateAllRulesetsOp(rc, eng, ctx, order, fired) ==
    IF eng.policy.MaxExecutionTime <= 0
    THEN [panic |-> TRUE, all |-> <<>>, err |-> NoErr]
    ELSE LET b == BatchLoop(rc, eng, ctx, order, 1, fired, <<>>)
         IN  [panic |-> FALSE, all |-> b.all, err |-> b.err]

----------------------------------------------------------------------------
(* State *)

\* the last call: its arguments, what it returned, and what it replaced
NoCall ==
    [op |-> "none", arg |-> "", err |-> NoErr, rule |-> ZeroRuleResult,
     ruleset |-> ZeroRulesetResult, calls |-> <<>>, evals |-> <<>>,
     ctx |-> NilMap, before |-> <<>>, repeat |-> FALSE,
     policy |-> <<>>, all |-> <<>>, order |-> <<>>, fired |-> 0,
     parents |-> <<>>, steps |-> 0,
     caller |-> "", after |-> <<>>, switch |-> 0, inner |-> 0, sets |-> 0,
     overlap |-> FALSE]

\* the callers that share the engine
Callers == {"c1", "c2"}

\* a caller that is in no call
IdleCall ==
    [pc |-> "idle", op |-> "", name |-> "", results |-> <<>>, calls |-> <<>>,
     evals |-> <<>>, order |-> <<>>, fired |-> 0, all |-> <<>>, err |-> NoErr,
     start |-> <<>>, switch |-> 0, inner |-> 0, sets |-> 0, overlap |-> FALSE]

\* the calls in flight: for each caller its call of EvaluateRuleset or
\* EvaluateAllRulesets (op), the ruleset it is evaluating (name) with the
\* results recorded and the names evaluated so far, and for a batch the
\* order of the map iteration, the iteration that finds the deadline elapsed
\* and the results map so far; setting says that a SetContext has assigned
\* re.context and not yet returned; sets counts the calls of SetContext.
\* In a call, start is the context when it began, sets the number of
\* SetContext calls that began during it, switch the number of members (of
\* rulesets, for a batch) evaluated when the latest of them began, inner the
\* number of members of the current ruleset evaluated then, and overlap says
\* that a step of the call was taken while a SetContext was in flight.
NoRunning ==
    [calls |-> [c \in Callers |-> IdleCall], setting |-> FALSE, sets |-> 0]

RuleNames == {"A", "B", "C"}

\* a name no configuration uses for a rule
UnknownRule == "Z"

RulesetNames == {"rs1"}

UnknownRuleset == "rs9"

DisplayName(k) == <<"name of", k>>

MkRule(k, ext, bad) ==
    [Name |-> DisplayName(k), Expression |-> IF k = bad THEN "bad(" ELSE k,
     Extends |-> ext[k]]

\* every extends graph over the names, with at most one expression that
\* does not compile
RuleTables(names) ==
    {[k \in names |-> MkRule(k, ext, bad)] :
        ext \in [names -> names \cup {"", UnknownRule}], bad \in names \cup {""}}

RECURSIVE ListsUpTo(_, _)
ListsUpTo(S, n) ==
    IF n = 0 THEN {<<>>}
    ELSE LET shorter == ListsUpTo(S, n - 1)
         IN  shorter \cup {Append(l, x) : l \in {s \in shorter : Len(s) = n - 1}, x \in S}

ExecutionPolicies ==
    [fail_fast   |-> [StopOnFailure |-> TRUE,  MaxExecutionTime |-> ""],
     collect_all |-> [StopOnFailure |-> FALSE, MaxExecutionTime |-> "10ms"],
     bad_time    |-> [StopOnFailure |-> FALSE, MaxExecutionTime |-> "abc"]]

Environments ==
    [production  |-> [Globals |-> MakeMap([min_age |-> 18]),
                      ErrorHandling |->
                          [ExecutionPolicy |-> "fail_fast",
                           CustomErrorMessages |-> MakeMap([A |-> "prod message"])]],
     development |-> [Globals |-> NilMap,
                      ErrorHandling |->
                          [ExecutionPolicy |-> "",
                           CustomErrorMessages |-> NilMap]]]

MkConfig(rules, rulesets, policyName, msgs) ==
    [Globals           |-> MakeMap([min_age |-> 13]),
     Rules             |-> rules,
     Rulesets          |-> rulesets,
     ExecutionPolicies |-> ExecutionPolicies,
     ErrorHandling     |-> [ExecutionPolicy |-> policyName, CustomErrorMessages |-> msgs],
     Environments      |-> Environments]

PolicyNames == {"fail_fast", "collect_all", "bad_time", "missing"}

\* configurations that vary the rules and their extends graph
RuleConfigs ==
    {MkConfig(rules,
              [rs1 |-> [Selector |-> selectorAnd, Rules |-> <<"A", "B">>]],
              p, msgs) :
        rules \in RuleTables(RuleNames),
        p \in PolicyNames,
        msgs \in {NilMap, MakeMap(<<>>), MakeMap([A |-> "base message"])}}

\* configurations that vary the ruleset
RulesetConfigs ==
    {MkConfig([k \in {"A", "B"} |-> MkRule(k, ext, "")],
              [rs1 |-> [Selector |-> sel, Rules |-> rs]],
              p, msgs) :
        ext \in {[A |-> "", B |-> ""], [A |-> "", B |-> "A"]},
        sel \in {selectorAnd, selectorOr, ""},
        rs \in ListsUpTo({"A", "B", UnknownRule}, MaxRulesetLen),
        p \in PolicyNames,
        msgs \in {NilMap, MakeMap(<<>>), MakeMap([rs1 |-> "ruleset message"])}}

\* the contexts callers pass to SetContext
CallerContexts(rc) ==
    {[user |-> v] : v \in [DOMAIN rc.Rules -> Outcomes]}
    \cup {[request |-> "r", globals |-> MakeMap([min_age |-> 0])]}

Init ==
    /\ config \in RuleConfigs \cup RulesetConfigs
    /\ engine = NoEngine("none", NoErr)
    /\ context = <<>>
    /\ last = NoCall
    /\ running = NoRunning

\* config is the configuration NewRulesetConfig has loaded; celEnv is FALSE
\* for a nil *cel.Env
NewRuleEngine(environment, celEnv) ==
    /\ engine.status = "none"
    /\ last' = NoCall
    /\ UNCHANGED running
    /\ context' = <<>>
    /\ LET ae == ApplyEnvironment(config, environment)
           pe == GetExecutionPolicy(ae.rc)
       IN  /\ config' = ae.rc
           /\ IF ae.panic
              THEN engine' = NoEngine("panic", NoErr)
              ELSE IF pe.err # NoErr
                   THEN engine' = NoEngine("failed", pe.err)
                   ELSE IF ~celEnv
                        THEN engine' = NoEngine("failed", Err("cel_env_nil", ""))
                        ELSE \E c \in compileRules(ae.rc) :
                                engine' =
                                   IF c.err # NoErr
                                   THEN NoEngine("failed", c.err)
                                   ELSE [status   |-> "ready",
                                         err      |-> NoErr,
                                         programs |-> c.programs,
                                         parents  |-> c.parents,
                                         policy   |-> pe.policy]

\* ctx is the Go map the caller passes; the assignments to a nil map panic.
\* last.before is the set of keys of the context that is replaced.
SetContext(ctx) ==
    /\ engine.status = "ready"
    /\ IF ctx.isNil
       THEN /\ context' = <<>>
            /\ engine' = NoEngine("panic", NoErr)
            /\ last' = NoCall
       ELSE /\ context' = buildContext(config, ctx.kv)
            /\ engine' = engine
            /\ last' = [NoCall EXCEPT !.op = "SetContext", !.ctx = ctx,
                                      !.before = DOMAIN context]
    /\ UNCHANGED <<config, running>>

EvaluateRule(ruleName) ==
    /\ engine.status = "ready"
    /\ LET r == EvaluateRuleOp(config, engine, context, ruleName)
       IN  last' = [NoCall EXCEPT !.op = "EvaluateRule", !.arg = ruleName,
                                  !.err = r.err, !.rule = r.res, !.evals = r.evals]
    /\ UNCHANGED <<config, engine, context, running>>

EvaluateRuleset(rulesetName) ==
    /\ engine.status = "ready"
    /\ LET r == EvaluateRulesetOp(config, engine, context, rulesetName)
       IN  last' = [NoCall EXCEPT !.op = "EvaluateRuleset", !.arg = rulesetName,
                                  !.err = r.err, !.ruleset = r.res,
                                  !.calls = r.calls, !.evals = r.evals]
    /\ UNCHANGED <<config, engine, context, running>>

Next ==
    \/ \E environment \in {"", "development", "production"}, celEnv \in BOOLEAN :
          NewRuleEngine(environment, celEnv)
    \/ \E ctx \in {MakeMap(c) : c \in CallerContexts(config)} \cup {NilMap} :
          SetContext(ctx)
    \/ \E ruleName \in RuleNames \cup {UnknownRule} : EvaluateRule(ruleName)
    \/ \E rulesetName \in RulesetNames \cup {UnknownRuleset} : EvaluateRuleset(rulesetName)

Spec == Init /\ [][Next]_vars

----------------------------------------------------------------------------
(* Batches: EvaluateAllRulesets over configurations with several rulesets *)

BatchRulesets ==
    [rs1 |-> [Selector |-> selectorAnd, Rules |-> <<"A">>],
     rs2 |-> [Selector |-> selectorOr,  Rules |-> <<"A", "B">>],
     rs3 |-> [Selector |-> selectorAnd, Rules |-> <<"B", "A">>]]

BatchPolicies ==
    [fail_fast     |-> [StopOnFailure |-> TRUE,  MaxExecutionTime |-> ""],
     collect_all   |-> [StopOnFailure |-> FALSE, MaxExecutionTime |-> "10ms"],
     zero_time     |-> [StopOnFailure |-> FALSE, MaxExecutionTime |-> "0s"],
     negative_time |-> [StopOnFailure |-> TRUE,  MaxExecutionTime |-> "-1s"]]

\* configurations with any of the rulesets of BatchRulesets, none included
BatchConfigs ==
    {[MkConfig([k \in {"A", "B"} |-> MkRule(k, [A |-> "", B |-> ""], "")],
               [n \in names |-> BatchRulesets[n]],
               p, MakeMap([rs1 |-> "ruleset message"]))
        EXCEPT !.ExecutionPolicies = BatchPolicies] :
        names \in SUBSET (DOMAIN BatchRulesets),
        p \in DOMAIN BatchPolicies}

InitBatch ==
    /\ config \in BatchConfigs
    /\ engine = NoEngine("none", NoErr)
    /\ context = <<>>
    /\ last = NoCall
    /\ running = NoRunning

\* the orders in which a range over a map with the keys S can visit them
Orders(S) ==
    {o \in [1..Cardinality(S) -> S] : \A x \in S : \E i \in DOMAIN o : o[i] = x}

\* order is the order of the map iteration; fired is the iteration at which
\* the deadline is first seen to have elapsed, 0 when the batch ends before
EvaluateAllRulesets(order, fired) ==
    /\ engine.status = "ready"
    /\ LET r == EvaluateAllRulesetsOp(config, engine, context, order, fired)
       IN  /\ engine' = IF r.panic THEN NoEngine("panic", NoErr) ELSE engine
           /\ last' = [NoCall EXCEPT !.op = "EvaluateAllRulesets",
                                     !.order = order, !.fired = fired,
                                     !.all = r.all, !.err = r.err]
    /\ UNCHANGED <<config, context, running>>

NextBatch ==
    \/ \E environment \in {"", "development", "production"}, celEnv \in BOOLEAN :
          NewRuleEngine(environment, celEnv)
    \/ \E ctx \in {MakeMap(c) : c \in CallerContexts(config)} \cup {NilMap} :
          SetContext(ctx)
    \/ \E ruleName \in DOMAIN config.Rules \cup {UnknownRule} : EvaluateRule(ruleName)
    \/ \E rulesetName \in DOMAIN BatchRulesets \cup {UnknownRuleset} :
          EvaluateRuleset(rulesetName)
    \/ \E order \in Orders(DOMAIN config.Rulesets),
          fired \in 0..Cardinality(DOMAIN config.Rulesets) :
          EvaluateAllRulesets(order, fired)

SpecBatch == InitBatch /\ [][NextBatch]_vars

----------------------------------------------------------------------------
(* Rulesets that declare extends, custom_rules and an inline expression *)

\* the custom_rules tables of the rulesets: none, or the one rule "c1"
CustomRuleTables ==
    {<<>>, [c1 |-> [Name |-> DisplayName("c1"), Expression |-> "A", Extends |-> ""]]}

\* configurations whose ruleset rs1 sets the fields Extends, CustomRules and
\* Expression of Ruleset next to its listed rules
ExtendedConfigs ==
    {MkConfig([k \in {"A", "B"} |-> MkRule(k, [A |-> "", B |-> ""], "")],
              [rs1 |-> [Selector    |-> sel,
                        Rules       |-> rs,
                        Extends     |-> e,
                        CustomRules |-> cr,
                        Expression  |-> x]],
              p, MakeMap(<<>>)) :
        sel \in {selectorAnd, selectorOr},
        rs \in ListsUpTo({"A", "B"}, MaxRulesetLen),
        e \in {"", "A", UnknownRule},
        cr \in CustomRuleTables,
        x \in {"", "B"},
        p \in {"fail_fast", "collect_all"}}

InitExtended ==
    /\ config \in ExtendedConfigs
    /\ engine = NoEngine("none", NoErr)
    /\ context = <<>>
    /\ last = NoCall
    /\ running = NoRunning

SpecExtended == InitExtended /\ [][Next]_vars

----------------------------------------------------------------------------
(* The ancestor walk on its own: getRuleParents over every extends graph *)

\* the names rules are drawn from, in the order they are added
WalkNameSeq == <<"A", "B", "C", "D", "E">>

WalkNames == {WalkNameSeq[i] : i \in 1..MaxRules}

InitParents ==
    /\ config \in {MkConfig(rules, <<>>, "fail_fast", NilMap) :
                      rules \in RuleTables(WalkNames)}
    /\ engine = NoEngine("none", NoErr)
    /\ context = <<>>
    /\ last = NoCall
    /\ running = NoRunning

\* re.getRuleParents(rule) for the rule of the table under ruleName
CallGetRuleParents(ruleName) ==
    /\ engine.status = "none"
    /\ LET w == getRuleParents(config.Rules, config.Rules[ruleName])
       IN  last' = [NoCall EXCEPT !.op = "getRuleParents", !.arg = ruleName,
                                  !.err = w.err, !.parents = w.parents,
                                  !.steps = w.steps]
    /\ UNCHANGED <<config, engine, context, running>>

NextParents == \E ruleName \in DOMAIN config.Rules : CallGetRuleParents(ruleName)

SpecParents == InitParents /\ [][NextParents]_vars

----------------------------------------------------------------------------
(* Callers sharing the engine: SetContext and EvaluateRuleset in steps *)

\* configurations with the ruleset rs1 over the rules A and B, or with the
\* rulesets rs1 and rs2 of one rule each; the rules extend nothing, so that
\* evaluating a member is one Eval
SharedConfigs ==
    {MkConfig([k \in {"A", "B"} |-> MkRule(k, [A |-> "", B |-> ""], "")],
              rulesets, p, MakeMap(<<>>)) :
        rulesets \in
            {[rs1 |-> [Selector |-> sel, Rules |-> rs]] :
                sel \in {selectorAnd, selectorOr}, rs \in {<<"A", "B">>, <<>>}}
            \cup {[rs1 |-> [Selector |-> selectorAnd, Rules |-> <<"A">>],
                   rs2 |-> [Selector |-> selectorAnd, Rules |-> <<"B">>]]},
        p \in {"fail_fast", "collect_all"}}

\* two contexts, each making one of the two rules true
SharedContexts ==
    {[user |-> [A |-> "T", B |-> "F"]], [user |-> [A |-> "F", B |-> "T"]]}

InitShared ==
    /\ config \in SharedConfigs
    /\ engine = NoEngine("none", NoErr)
    /\ context = <<>>
    /\ last = NoCall
    /\ running = NoRunning

\* In the steps below last is what the step returns to a caller, and NoCall
\* for a step that returns nothing.

\* re.context = ctx, the first statement of SetContext; every call in
\* flight notes how many members it had evaluated
BeginSetContext(ctx) ==
    /\ engine.status = "ready"
    /\ ~running.setting
    /\ running.sets < MaxSetContexts
    /\ context' = ctx
    /\ running' =
          [calls   |-> [c \in Callers |->
                           IF running.calls[c].pc = "running"
                           THEN [running.calls[c] EXCEPT
                                    !.sets = @ + 1,
                                    !.switch =
                                        IF running.calls[c].op = "EvaluateAllRulesets"
                                        THEN Cardinality(DOMAIN running.calls[c].all)
                                        ELSE Len(running.calls[c].calls),
                                    !.inner = Len(running.calls[c].calls)]
                           ELSE running.calls[c]],
           setting |-> TRUE,
           sets    |-> running.sets + 1]
    /\ last' = NoCall
    /\ UNCHANGED <<config, engine>>

\* the assignments of globals, now and timestamp, and the return of SetContext
FinishSetContext ==
    /\ engine.status = "ready"
    /\ running.setting
    /\ context' = buildContext(config, context)
    /\ running' = [running EXCEPT !.setting = FALSE]
    /\ last' = NoCall
    /\ UNCHANGED <<config, engine>>

\* the RulesetResult of the ruleset whose loop has ended in rec
RulesetResultOf(rec) ==
    LET passed == Combine(config.Rulesets[rec.name].Selector, rec.results)
    IN  [RulesetName |-> rec.name,
         Passed      |-> passed,
         RuleResults |-> rec.results,
         Error       |-> RulesetErrorMessage(config, rec.name, passed)]

\* what EvaluateRuleset returns to caller c once its loop has ended
RulesetReturn(c, rec) ==
    [NoCall EXCEPT !.op = "EvaluateRuleset", !.arg = rec.name,
                   !.ruleset = RulesetResultOf(rec),
                   !.calls = rec.calls, !.evals = rec.evals,
                   !.caller = c, !.before = rec.start, !.after = context,
                   !.switch = rec.switch, !.inner = rec.inner,
                   !.sets = rec.sets, !.overlap = rec.overlap]

\* what EvaluateAllRulesets returns to caller c
BatchReturn(c, rec) ==
    [NoCall EXCEPT !.op = "EvaluateAllRulesets", !.order = rec.order,
                   !.fired = rec.fired, !.all = rec.all, !.err = rec.err,
                   !.caller = c, !.before = rec.start, !.after = context,
                   !.switch = rec.switch, !.inner = rec.inner,
                   !.sets = rec.sets, !.overlap = rec.overlap]

RECURSIVE BatchAdvance(_, _)
\* the batch rec, with the rulesets before the k-th recorded, at the top of
\* iteration k of the loop of EvaluateAllRulesets: it returns after the last
\* ruleset or at an elapsed deadline, records a ruleset that lists no rules,
\* and otherwise enters the loop of EvaluateRuleset for the k-th ruleset
BatchAdvance(rec, k) ==
    IF k > Len(rec.order)
    THEN [rec EXCEPT !.pc = "return", !.err = NoErr]
    ELSE IF rec.fired = k
         THEN [rec EXCEPT !.pc = "return",
                          !.all = TimeoutReturn(rec.all, rec.order[k]).all,
                          !.err = TimeoutReturn(rec.all, rec.order[k]).err]
         ELSE LET inner == [rec EXCEPT !.pc = "running", !.name = rec.order[k],
                                       !.results = <<>>, !.calls = <<>>,
                                       !.evals = <<>>]
              IN  IF Len(config.Rulesets[rec.order[k]].Rules) = 0
                  THEN BatchAdvance([inner EXCEPT
                                        !.all = MapPut(@, rec.order[k],
                                                       RulesetResultOf(inner))],
                                    k + 1)
                  ELSE inner

\* caller c calls EvaluateRuleset: the lookup of the ruleset, and the return
\* when it is not found or lists no rules
BeginEvaluateRuleset(c, rulesetName) ==
    /\ engine.status = "ready"
    /\ running.calls[c].pc = "idle"
    /\ LET rec == [IdleCall EXCEPT !.pc = "running", !.op = "EvaluateRuleset",
                                   !.name = rulesetName,
                                   !.start = context, !.overlap = running.setting]
       IN  IF rulesetName \notin DOMAIN config.Rulesets
           THEN /\ last' = [NoCall EXCEPT !.op = "EvaluateRuleset",
                                          !.arg = rulesetName, !.caller = c,
                                          !.err = Err("ruleset_not_found", rulesetName)]
                /\ UNCHANGED running
           ELSE IF Len(config.Rulesets[rulesetName].Rules) = 0
                THEN /\ last' = RulesetReturn(c, rec)
                     /\ UNCHANGED running
                ELSE /\ running' = [running EXCEPT !.calls[c] = rec]
                     /\ last' = NoCall
    /\ UNCHANGED <<config, engine, context>>

\* caller c calls EvaluateAllRulesets: the ticker, which panics for a
\* duration that is not positive, and the loop up to the first ruleset that
\* lists rules; order and fired are as in EvaluateAllRulesets
BeginEvaluateAllRulesets(c, order, fired) ==
    /\ engine.status = "ready"
    /\ running.calls[c].pc = "idle"
    /\ IF engine.policy.MaxExecutionTime <= 0
       THEN /\ engine' = [engine EXCEPT !.status = "panic"]
            /\ last' = NoCall
            /\ UNCHANGED running
       ELSE LET rec == BatchAdvance([IdleCall EXCEPT
                                        !.op = "EvaluateAllRulesets",
                                        !.order = order, !.fired = fired,
                                        !.start = context,
                                        !.overlap = running.setting], 1)
            IN  /\ IF rec.pc = "return"
                   THEN /\ last' = BatchReturn(c, rec)
                        /\ UNCHANGED running
                   ELSE /\ running' = [running EXCEPT !.calls[c] = rec]
                        /\ last' = NoCall
                /\ UNCHANGED engine
    /\ UNCHANGED <<config, context>>

\* one iteration of the loop of EvaluateRuleset of caller c: EvaluateRule of
\* the next member against re.context; after the last iteration the return
\* of EvaluateRuleset, and in a batch the recording of its result and the
\* loop of EvaluateAllRulesets up to the next ruleset that lists rules.  An
\* Eval while a SetContext is writing the map it reads is a concurrent map
\* read and map write: the runtime may end the program.
StepMember(c) ==
    /\ engine.status = "ready"
    /\ running.calls[c].pc = "running"
    /\ \/ /\ running.setting
          /\ engine' = [engine EXCEPT !.status = "panic"]
          /\ last' = NoCall
          /\ UNCHANGED <<config, context, running>>
       \/ LET rec     == running.calls[c]
              ruleset == config.Rulesets[rec.name]
              i       == Len(rec.calls) + 1
              ruleRef == ruleset.Rules[i]
              r       == EvaluateRuleOp(config, engine,
                                        ContextRead(context, rec.start), ruleRef)
              rec2    == [rec EXCEPT !.results = MapPut(@, ruleRef, r.res),
                                     !.calls   = Append(@, ruleRef),
                                     !.evals   = @ \o r.evals,
                                     !.overlap = @ \/ running.setting]
              result  == RulesetResultOf(rec2)
              rec3    == [rec2 EXCEPT !.all = MapPut(@, rec.name, result)]
              next    == IF BatchStops(result, NoErr)
                         THEN [rec3 EXCEPT !.pc = "return"]
                         ELSE BatchAdvance(rec3, Cardinality(DOMAIN rec3.all) + 1)
          IN  /\ IF FailFast(ruleset, r.res, r.err, engine.policy)
                      \/ i = Len(ruleset.Rules)
                 THEN IF rec.op = "EvaluateRuleset"
                      THEN /\ last' = RulesetReturn(c, rec2)
                           /\ running' = [running EXCEPT !.calls[c] = IdleCall]
                      ELSE IF next.pc = "return"
                           THEN /\ last' = BatchReturn(c, next)
                                /\ running' = [running EXCEPT !.calls[c] = IdleCall]
                           ELSE /\ running' = [running EXCEPT !.calls[c] = next]
                                /\ last' = NoCall
                 ELSE /\ running' = [running EXCEPT !.calls[c] = rec2]
                      /\ last' = NoCall
              /\ UNCHANGED <<config, engine, context>>

NextShared ==
    \/ \E celEnv \in BOOLEAN : NewRuleEngine("", celEnv)
    \/ \E ctx \in SharedContexts : BeginSetContext(ctx)
    \/ FinishSetContext
    \/ \E c \in Callers, rulesetName \in RulesetNames \cup {UnknownRuleset} :
          BeginEvaluateRuleset(c, rulesetName)
    \/ \E c \in Callers, order \in Orders(DOMAIN config.Rulesets),
          fired \in 0..Cardinality(DOMAIN config.Rulesets) :
          BeginEvaluateAllRulesets(c, order, fired)
    \/ \E c \in Callers : StepMember(c)

SpecShared == InitShared /\ [][NextShared]_vars

----------------------------------------------------------------------------
(* The configuration on its own: ApplyEnvironment and GetExecutionPolicy *)

DurationStrings == {"", "10ms", "abc", "0s", "-1s"}

ConfigPolicyTables ==
    {[fail_fast   |-> [StopOnFailure |-> TRUE, MaxExecutionTime |-> ""],
      collect_all |-> [StopOnFailure |-> stop, MaxExecutionTime |-> t]] :
        stop \in BOOLEAN, t \in DurationStrings}

ConfigEnvironments ==
    [production  |-> Environments["production"],
     development |-> Environments["development"],
     staging     |-> [Globals |-> MakeMap(<<>>),
                      ErrorHandling |->
                          [ExecutionPolicy |-> "collect_all",
                           CustomErrorMessages |-> MakeMap([B |-> "staging message"])]],
     canary      |-> [Globals |-> MakeMap([region |-> "us"]),
                      ErrorHandling |->
                          [ExecutionPolicy |-> "missing",
                           CustomErrorMessages |-> NilMap]]]

EnvironmentNames == {"", "production", "development", "staging", "canary", "unknown"}

\* configurations that vary the tables ApplyEnvironment and
\* GetExecutionPolicy read and write
ConfigConfigs ==
    {[MkConfig([k \in {"A", "B"} |-> MkRule(k, [A |-> "", B |-> ""], "")],
               [rs1 |-> [Selector |-> selectorAnd, Rules |-> <<"A", "B">>]],
               p, msgs)
        EXCEPT !.Globals = g, !.ExecutionPolicies = pt,
               !.Environments = ConfigEnvironments] :
        g \in {NilMap, MakeMap(<<>>), MakeMap([min_age |-> 13]),
               MakeMap([min_age |-> 13, region |-> "eu"])},
        msgs \in {NilMap, MakeMap(<<>>), MakeMap([A |-> "base message"]),
                  MakeMap([B |-> "base message for B"])},
        p \in {"fail_fast", "collect_all", "missing"},
        pt \in ConfigPolicyTables}

InitConfig ==
    /\ config \in ConfigConfigs
    /\ engine = NoEngine("none", NoErr)
    /\ context = <<>>
    /\ last = NoCall
    /\ running = NoRunning

\* rc.ApplyEnvironment(environment) on the loaded configuration; last.before
\* is the configuration before the call, last.repeat says that the call
\* before it applied the same environment.  A panic ends the program.
CallApplyEnvironment(environment) ==
    /\ engine.status = "none"
    /\ LET ae == ApplyEnvironment(config, environment)
       IN  /\ config' = ae.rc
           /\ engine' = IF ae.panic THEN NoEngine("panic", NoErr) ELSE engine
    /\ last' = [NoCall EXCEPT !.op = "ApplyEnvironment", !.arg = environment,
                              !.before = config,
                              !.repeat = (last.op = "ApplyEnvironment"
                                          /\ last.arg = environment)]
    /\ UNCHANGED <<context, running>>

\* rc.GetExecutionPolicy() on the configuration
CallGetExecutionPolicy ==
    /\ engine.status = "none"
    /\ LET pe == GetExecutionPolicy(config)
       IN  last' = [NoCall EXCEPT !.op = "GetExecutionPolicy",
                                  !.policy = pe.policy, !.err = pe.err]
    /\ UNCHANGED <<config, engine, context, running>>

NextConfig ==
    \/ \E environment \in EnvironmentNames : CallApplyEnvironment(environment)
    \/ CallGetExecutionPolicy

SpecConfig == InitConfig /\ [][NextConfig]_vars

----------------------------------------------------------------------------
(* Properties *)

RuleCall == last.op = "EvaluateRule" /\ last.arg \in DOMAIN config.Rules

RulesetCall == last.op = "EvaluateRuleset" /\ last.arg \in DOMAIN config.Rulesets

\* what the expression of rule r evaluates to on the current context
Out(r) == Eval(r, context)

\* C1: EvaluateRule of a rule without an extends parent returns a nil call
\* error, and Passed is the boolean its expression evaluates to.
C1_RuleWithoutParent ==
    (RuleCall /\ config.Rules[last.arg].Extends = "")
        => /\ last.err = NoErr
           /\ (Out(last.arg) = "T" => last.rule.Passed)
           /\ (Out(last.arg) = "F" => ~last.rule.Passed)

C1_Witness ==
    /\ RuleCall
    /\ config.Rules[last.arg].Extends = ""
    /\ Out(last.arg) = "T"
    /\ last.rule.Passed

\* the rule a extends b, b extends c, and c extends nothing
IsChain3(a, b, c) ==
    /\ {a, b, c} \subseteq DOMAIN config.Rules
    /\ config.Rules[a].Extends = b
    /\ config.Rules[b].Extends = c
    /\ config.Rules[c].Extends = ""

\* C2: for A extends B extends C, EvaluateRule(A) passes if and only if the
\* expressions of C, B and A all evaluate to boolean true.
C2_ChainPassesIffAllTrue ==
    \A b, c \in RuleNames :
        (RuleCall /\ IsChain3(last.arg, b, c))
            => (last.rule.Passed <=>
                    (Out(c) = "T" /\ Out(b) = "T" /\ Out(last.arg) = "T"))

\* C3: a ruleset whose selector is AND or unspecified passes if and only if
\* every recorded RuleResult passed.
C3_AndPassesIffAllRecordedPassed ==
    (RulesetCall /\ config.Rulesets[last.arg].Selector # selectorOr)
        => (last.ruleset.Passed <=>
                \A n \in DOMAIN last.ruleset.RuleResults :
                    last.ruleset.RuleResults[n].Passed)

C3_Witness ==
    /\ RulesetCall
    /\ config.Rulesets[last.arg].Selector = ""
    /\ ~engine.policy.StopOnFailure
    /\ Cardinality(DOMAIN last.ruleset.RuleResults) = 2
    /\ \E n \in DOMAIN last.ruleset.RuleResults : last.ruleset.RuleResults[n].Passed
    /\ ~last.ruleset.Passed

\* what EvaluateRule returns for a member on the current context
Member(ruleRef) == EvaluateRuleOp(config, engine, context, ruleRef)

Listed(rules, k) == {rules[i] : i \in 1..k}

\* C4: an OR ruleset evaluates and records every listed member whatever the
\* policy, and passes if and only if at least one member passed.
C4_OrEvaluatesAllMembers ==
    (RulesetCall /\ config.Rulesets[last.arg].Selector = selectorOr)
        => LET rules == config.Rulesets[last.arg].Rules
           IN  /\ last.calls = rules
               /\ DOMAIN last.ruleset.RuleResults = Listed(rules, Len(rules))
               /\ \A i \in 1..Len(rules) :
                      last.ruleset.RuleResults[rules[i]] = Member(rules[i]).res
               /\ last.ruleset.Passed <=>
                      \E i \in 1..Len(rules) : Member(rules[i]).res.Passed

C4_Witness ==
    /\ RulesetCall
    /\ config.Rulesets[last.arg].Selector = selectorOr
    /\ engine.policy.StopOnFailure
    /\ LET rules == config.Rulesets[last.arg].Rules
       IN  /\ Len(rules) = 2
           /\ rules[1] # rules[2]
           /\ Member(rules[1]).res.Error.kind = "runtime"
           /\ Member(rules[2]).res.Passed
           /\ DOMAIN last.ruleset.RuleResults = {rules[1], rules[2]}
    /\ last.ruleset.Passed

\* a member fails: it evaluates to false, errors, or cannot be evaluated
MemberFails(ruleRef) == ~Member(ruleRef).res.Passed \/ Member(ruleRef).err # NoErr

\* the position of the first failing member, or the length of the list
FirstFailure(rules) ==
    IF \E i \in 1..Len(rules) : MemberFails(rules[i])
    THEN CHOOSE i \in 1..Len(rules) :
            /\ MemberFails(rules[i])
            /\ \A j \in 1..(i - 1) : ~MemberFails(rules[j])
    ELSE Len(rules)

\* C5: for a selector other than OR, with stop_on_failure the listed rules
\* are evaluated and recorded up to and including the first that fails or
\* errors and no later one; without it every listed rule is evaluated and
\* recorded.
C5_FailFast ==
    (RulesetCall /\ config.Rulesets[last.arg].Selector # selectorOr)
        => LET rules == config.Rulesets[last.arg].Rules
               k     == IF engine.policy.StopOnFailure
                        THEN FirstFailure(rules) ELSE Len(rules)
           IN  /\ last.calls = SubSeq(rules, 1, k)
               /\ DOMAIN last.ruleset.RuleResults = Listed(rules, k)

C5_Witness ==
    /\ RulesetCall
    /\ config.Rulesets[last.arg].Selector # selectorOr
    /\ engine.policy.StopOnFailure
    /\ LET rules == config.Rulesets[last.arg].Rules
       IN  /\ Len(rules) = 2
           /\ rules[1] # rules[2]
           /\ last.calls = <<rules[1]>>
           /\ DOMAIN last.ruleset.RuleResults = {rules[1]}
           /\ Member(rules[2]).res.Passed


CustomMessages == config.ErrorHandling.CustomErrorMessages

NoRuntimeError == \A i \in DOMAIN last.evals : Out(last.evals[i]) # "E"

C8_RuntimeErrorVerbatim ==
    RuleCall
        => \A i \in DOMAIN last.evals :
               Out(last.evals[i]) = "E"
                   => /\ last.err = NoErr
                      /\ ~last.rule.Passed
                      /\ last.rule.RuleName = last.arg
                      /\ last.rule.Error = Err("runtime", last.evals[i])

C8_Witness ==
    /\ RuleCall
    /\ MapHas(CustomMessages, last.arg)
    /\ Len(last.evals) = 1
    /\ last.evals[1] # last.arg
    /\ Out(last.evals[1]) = "E"
    /\ last.rule.Error = Err("runtime", last.evals[1])

\* C9: EvaluateRule and EvaluateRuleset of a name that is not configured
\* return an error and the zero-value result, and evaluate no expression.
C9_UnknownName ==
    /\ (last.op = "EvaluateRule" /\ last.arg \notin DOMAIN config.Rules)
           => /\ last.err # NoErr
              /\ last.rule = ZeroRuleResult
              /\ last.evals = <<>>
    /\ (last.op = "EvaluateRuleset" /\ last.arg \notin DOMAIN config.Rulesets)
           => /\ last.err # NoErr
              /\ last.ruleset = ZeroRulesetResult
              /\ last.calls = <<>>
              /\ last.evals = <<>>

C9_Witness ==
    /\ last.op = "EvaluateRule"
    /\ last.arg \notin DOMAIN config.Rules
    /\ "user" \in DOMAIN context
    /\ last.err = Err("rule_not_found", last.arg)

RECURSIVE Ancestor(_, _, _)
\* the name i extends links above n; "" once the chain has ended or has left
\* the rule table
Ancestor(rules, n, i) ==
    IF i = 0
    THEN n
    ELSE LET a == Ancestor(rules, n, i - 1)
         IN  IF a \in DOMAIN rules THEN rules[a].Extends ELSE ""

\* the chain of n never ends: it leads into a cycle
LeadsToCycle(rules, n) ==
    Ancestor(rules, n, Cardinality(DOMAIN rules)) \in DOMAIN rules

HasCycle(rules) == \E n \in DOMAIN rules : LeadsToCycle(rules, n)

\* the chain of n reaches a name that is not in the rule table
Dangles(rules, n) ==
    \E i \in 1..Cardinality(DOMAIN rules) :
        Ancestor(rules, n, i) \notin (DOMAIN rules) \cup {""}

\* C10 as stated: a configuration with a cycle in its extends graph makes
\* construction fail with the circular-dependency error.  Stated for the
\* constructions that get as far as compileRules, so that only the rules of
\* the configuration decide it.
C10_CycleGivesCircularError ==
    ( /\ HasCycle(config.Rules)
      /\ engine.status = "failed"
      /\ engine.err.kind \notin {"policy_not_found", "invalid_duration", "cel_env_nil"} )
        => engine.err.kind = "circular"

\* C10 amended: a configuration with a cycle in its extends graph never
\* yields an engine; the error is the circular-dependency error of a rule
\* that leads into a cycle when construction gets to compileRules and no
\* rule has an expression that does not compile or a dangling extends.
C10_CycleNeverYieldsEngine ==
    (HasCycle(config.Rules) /\ engine.status # "none")
        => /\ engine.status \in {"failed", "panic"}
           /\ ( /\ engine.status = "failed"
                /\ engine.err.kind \notin
                       {"policy_not_found", "invalid_duration", "cel_env_nil"}
                /\ \A n \in DOMAIN config.Rules :
                       /\ compileExpression(config.Rules[n].Expression) = NoErr
                       /\ ~Dangles(config.Rules, n) )
                  => /\ engine.err.kind = "circular"
                     /\ LeadsToCycle(config.Rules, engine.err.name)

C10_Witness ==
    /\ HasCycle(config.Rules)
    /\ engine.status = "failed"
    /\ engine.err.kind = "circular"
    /\ \A i \in 1..Cardinality(DOMAIN config.Rules) :
          Ancestor(config.Rules, engine.err.name, i) # engine.err.name


\* construction got as far as compileRules and failed there
FailedInCompileRules ==
    /\ engine.status = "failed"
    /\ engine.err.kind \notin {"policy_not_found", "invalid_duration", "cel_env_nil"}

HasDangling(rules) == \E n \in DOMAIN rules : Dangles(rules, n)

DoesNotCompile(rules, n) == compileExpression(rules[n].Expression) # NoErr

\* C11 as stated: when the extends chain of some rule reaches a name that is
\* not in the rule table, construction fails with an error naming that rule.
\* Stated for the constructions that get as far as compileRules.
C11_DanglingGivesErrorNamingRule ==
    (HasDangling(config.Rules) /\ FailedInCompileRules)
        => (engine.err.name \in DOMAIN config.Rules
            /\ Dangles(config.Rules, engine.err.name))

\* C11 amended: a configuration with a dangling extends never yields an
\* engine; the error is the not-found error of a rule whose chain dangles
\* when construction gets to compileRules and no rule has an expression that
\* does not compile or a chain leading into a cycle.  An engine that is
\* constructed has only configured rules with a compiled program in its
\* ancestor chains.
C11_DanglingNeverYieldsEngine ==
    /\ (HasDangling(config.Rules) /\ engine.status # "none")
           => /\ engine.status \in {"failed", "panic"}
              /\ ( /\ FailedInCompileRules
                   /\ \A n \in DOMAIN config.Rules :
                          /\ ~DoesNotCompile(config.Rules, n)
                          /\ ~LeadsToCycle(config.Rules, n) )
                     => /\ engine.err.kind = "extends_not_found"
                        /\ Dangles(config.Rules, engine.err.name)
    /\ engine.status = "ready"
           => \A n \in DOMAIN config.Rules :
                  \A i \in DOMAIN engine.parents[n] :
                      /\ engine.parents[n][i] \in DOMAIN config.Rules
                      /\ engine.parents[n][i] \in engine.programs

C11_Witness ==
    /\ engine.status = "failed"
    /\ engine.err.kind = "extends_not_found"
    /\ config.Rules[engine.err.name].Extends \in DOMAIN config.Rules
    /\ Dangles(config.Rules, engine.err.name)

\* C12 as stated: when the expression of a rule does not compile,
\* NewRuleEngine returns an error identifying that rule.  Stated for the
\* constructions that get as far as compileRules.
C12_CompileFailureGivesErrorNamingRule ==
    ((\E n \in DOMAIN config.Rules : DoesNotCompile(config.Rules, n))
     /\ FailedInCompileRules)
        => (engine.err.name \in DOMAIN config.Rules
            /\ DoesNotCompile(config.Rules, engine.err.name))

\* C12 amended: a configuration with an expression that does not compile
\* never yields an engine; the error is the compile error of such a rule when
\* construction gets to compileRules and no rule has a chain that dangles or
\* leads into a cycle.  An engine that is constructed has a compiled program
\* for every configured rule.
C12_CompileFailureNeverYieldsEngine ==
    /\ ((\E n \in DOMAIN config.Rules : DoesNotCompile(config.Rules, n))
        /\ engine.status # "none")
           => /\ engine.status \in {"failed", "panic"}
              /\ ( /\ FailedInCompileRules
                   /\ \A n \in DOMAIN config.Rules :
                          /\ ~Dangles(config.Rules, n)
                          /\ ~LeadsToCycle(config.Rules, n) )
                     => /\ engine.err.kind = "compile"
                        /\ DoesNotCompile(config.Rules, engine.err.name)
    /\ engine.status = "ready"
           => \A n \in DOMAIN config.Rules :
                  /\ n \in engine.programs
                  /\ ~DoesNotCompile(config.Rules, n)

C12_Witness ==
    /\ engine.status = "failed"
    /\ engine.err.kind = "compile"
    /\ DoesNotCompile(config.Rules, engine.err.name)
    /\ \A n \in DOMAIN config.Rules :
          ~Dangles(config.Rules, n) /\ ~LeadsToCycle(config.Rules, n)


\* C13: when the execution policy name the overlay leaves active is not in
\* the policy table, GetExecutionPolicy returns the policy-not-found error
\* and NewRuleEngine returns that error and no engine.
C13_PolicyNotFound ==
    (/\ engine.status \notin {"none", "panic"}
     /\ config.ErrorHandling.ExecutionPolicy \notin DOMAIN config.ExecutionPolicies)
        => /\ GetExecutionPolicy(config).err
                 = Err("policy_not_found", config.ErrorHandling.ExecutionPolicy)
           /\ engine = NoEngine("failed",
                                Err("policy_not_found",
                                    config.ErrorHandling.ExecutionPolicy))

C13_Witness ==
    /\ engine.status = "failed"
    /\ engine.err = Err("policy_not_found", "missing")
    /\ config.ErrorHandling.ExecutionPolicy = "missing"


PolicyCall == last.op = "GetExecutionPolicy"

ActivePolicyFound ==
    config.ErrorHandling.ExecutionPolicy \in DOMAIN config.ExecutionPolicies

ActivePolicy == config.ExecutionPolicies[config.ErrorHandling.ExecutionPolicy]

DurationParses(t) == ParseDuration(t).ok

\* C14: when the active policy is found and its max_execution_time is not
\* empty and does not parse, GetExecutionPolicy returns the invalid-duration
\* error together with the default policy {true, 5s}, whatever
\* stop_on_failure the named policy declares.
C14_InvalidDurationReturnsDefault ==
    (/\ PolicyCall
     /\ ActivePolicyFound
     /\ ActivePolicy.MaxExecutionTime # ""
     /\ ~DurationParses(ActivePolicy.MaxExecutionTime))
        => /\ last.err.kind = "invalid_duration"
           /\ last.policy = [StopOnFailure |-> TRUE,
                             MaxExecutionTime |-> DefaultMaxExecutionTime]

C14_Witness ==
    /\ PolicyCall
    /\ last.err.kind = "invalid_duration"
    /\ ActivePolicyFound
    /\ ActivePolicy.StopOnFailure = FALSE
    /\ last.policy.StopOnFailure = TRUE

\* C15: when the active policy is found (and its max_execution_time is empty
\* or parses), GetExecutionPolicy returns no error, the StopOnFailure of the
\* named policy, and the parsed duration, or 5s for an empty
\* max_execution_time.
C15_FoundPolicyResolved ==
    (/\ PolicyCall
     /\ ActivePolicyFound
     /\ (ActivePolicy.MaxExecutionTime = ""
            \/ DurationParses(ActivePolicy.MaxExecutionTime)))
        => /\ last.err = NoErr
           /\ last.policy.StopOnFailure = ActivePolicy.StopOnFailure
           /\ last.policy.MaxExecutionTime =
                  IF ActivePolicy.MaxExecutionTime = ""
                  THEN DefaultMaxExecutionTime
                  ELSE ParseDuration(ActivePolicy.MaxExecutionTime).d

C15_Witness ==
    /\ PolicyCall
    /\ last.err = NoErr
    /\ ActivePolicyFound
    /\ ActivePolicy = [StopOnFailure |-> FALSE, MaxExecutionTime |-> ""]
    /\ last.policy = [StopOnFailure |-> FALSE,
                      MaxExecutionTime |-> DefaultMaxExecutionTime]

ApplyCall == last.op = "ApplyEnvironment"

\* base with the keys of over overwritten
Overwritten(base, over) ==
    [x \in (DOMAIN base.kv) \cup (DOMAIN over.kv) |->
        IF x \in DOMAIN over.kv THEN over.kv[x] ELSE base.kv[x]]

\* C16: ApplyEnvironment(E) completes and leaves the reference overlay: the
\* configuration unchanged when E is not in the environment table; otherwise
\* globals and custom_error_messages are the base maps with E's keys
\* overwritten, the policy name is E's when E's is not empty, and the other
\* tables are unchanged.
C16_ReferenceOverlay ==
    ApplyCall =>
        /\ engine.status # "panic"
        /\ IF last.arg \notin DOMAIN last.before.Environments
           THEN config = last.before
           ELSE LET E == last.before.Environments[last.arg]
                IN  /\ config.Globals.kv = Overwritten(last.before.Globals, E.Globals)
                    /\ config.ErrorHandling.CustomErrorMessages.kv
                          = Overwritten(last.before.ErrorHandling.CustomErrorMessages,
                                        E.ErrorHandling.CustomErrorMessages)
                    /\ config.ErrorHandling.ExecutionPolicy
                          = IF E.ErrorHandling.ExecutionPolicy # ""
                            THEN E.ErrorHandling.ExecutionPolicy
                            ELSE last.before.ErrorHandling.ExecutionPolicy
                    /\ config.Rules = last.before.Rules
                    /\ config.Rulesets = last.before.Rulesets
                    /\ config.ExecutionPolicies = last.before.ExecutionPolicies
                    /\ config.Environments = last.before.Environments

\* C17: applying the same environment a second time, with nothing in
\* between, leaves the configuration as the first application left it.
C17_ApplyEnvironmentIdempotent ==
    (ApplyCall /\ last.repeat)
        => (engine.status # "panic" /\ config = last.before)

C17_Witness ==
    /\ ApplyCall
    /\ last.repeat
    /\ last.arg = "production"
    /\ config.Globals.kv["min_age"] = 18
    /\ "region" \in DOMAIN config.Globals.kv


ReservedKeys == {"globals", "now", "timestamp"}

\* C18: after every SetContext(ctx) the context of the engine is ctx's
\* bindings plus globals, now and timestamp, and nothing else; globals is the
\* globals table of the configuration and now and timestamp are the engine's
\* accessors, whatever ctx holds under those keys.
C18_ContextReplaced ==
    last.op = "SetContext" =>
        /\ DOMAIN context = (DOMAIN last.ctx.kv) \cup ReservedKeys
        /\ \A k \in (DOMAIN last.ctx.kv) \ ReservedKeys : context[k] = last.ctx.kv[k]
        /\ context["globals"] = config.Globals
        /\ context["now"] = "now()"
        /\ context["timestamp"] = "timestamp(s)"

C18_Witness ==
    /\ last.op = "SetContext"
    /\ "user" \in last.before
    /\ "user" \notin DOMAIN context
    /\ "globals" \in DOMAIN last.ctx.kv
    /\ last.ctx.kv["globals"] # config.Globals
    /\ context["globals"] = config.Globals


\* a call of EvaluateAllRulesets that has returned
BatchCall == last.op = "EvaluateAllRulesets" /\ engine.status = "ready"

\* the results map holds, for the names of S, what EvaluateRuleset returns
ResultsAre(S) ==
    /\ DOMAIN last.all = S
    /\ \A n \in S : last.all[n] = EvaluateRulesetOp(config, engine, context, n).res

\* C19: when the deadline is found elapsed before a ruleset starts,
\* EvaluateAllRulesets returns the timeout error naming that ruleset and a
\* results map with exactly the rulesets evaluated before it (none when it
\* is the first); the timeout error is returned in no other case.
C19_TimeoutReturnsPartialResults ==
    BatchCall =>
        /\ last.fired > 0 =>
              /\ last.err = Err("timeout", last.order[last.fired])
              /\ ResultsAre({last.order[j] : j \in 1..(last.fired - 1)})
              /\ last.order[last.fired] \notin DOMAIN last.all
        /\ last.err.kind = "timeout" => last.fired > 0

C19_Witness ==
    /\ BatchCall
    /\ last.err.kind = "timeout"
    /\ last.fired = 2
    /\ Len(last.order) = 3
    /\ DOMAIN last.all = {last.order[1]}

\* C20: when EvaluateAllRulesets returns a nil error, the results map has one
\* entry for every ruleset of the configuration, equal to what
\* EvaluateRuleset returns for it; a ruleset that does not pass gives no
\* batch error and does not stop the rulesets after it.
C20_NilErrorMeansAllRulesets ==
    (BatchCall /\ last.err = NoErr) => ResultsAre(DOMAIN config.Rulesets)

C20_Witness ==
    /\ BatchCall
    /\ last.err = NoErr
    /\ Len(last.order) = 3
    /\ ~last.all[last.order[1]].Passed
    /\ last.all[last.order[3]].Passed
    /\ DOMAIN last.all = DOMAIN config.Rulesets


\* the keys '<ruleset>.<customName>' of the custom rules of a ruleset, which
\* declares at most one
CustomRuleKeys(ruleset, rulesetName) ==
    IF DOMAIN ruleset.CustomRules = {}
    THEN <<>>
    ELSE <<rulesetName \o "." \o (CHOOSE c \in DOMAIN ruleset.CustomRules : TRUE)>>

\* the effective rule list of a ruleset: the rule its extends names when it
\* is a known rule, its custom rules, its inline expression, its listed rules
EffectiveRuleList(rc, rulesetName) ==
    LET ruleset == rc.Rulesets[rulesetName]
    IN  (IF ruleset.Extends \in DOMAIN rc.Rules THEN <<ruleset.Extends>> ELSE <<>>)
        \o CustomRuleKeys(ruleset, rulesetName)
        \o (IF ruleset.Expression # "" THEN <<"ruleset." \o rulesetName>> ELSE <<>>)
        \o ruleset.Rules

\* C21: EvaluateRuleset evaluates and records the effective rule list of the
\* ruleset in order: the extends rule, the custom rules, the inline
\* expression, the listed rules.  Stated for the calls that fail-fast does
\* not cut short.
C21_EffectiveRuleListEvaluated ==
    (/\ RulesetCall
     /\ "Extends" \in DOMAIN config.Rulesets[last.arg]
     /\ ~engine.policy.StopOnFailure)
        => /\ last.calls = EffectiveRuleList(config, last.arg)
           /\ DOMAIN last.ruleset.RuleResults
                 = {EffectiveRuleList(config, last.arg)[i] :
                       i \in DOMAIN EffectiveRuleList(config, last.arg)}


\* the listed rules of the ruleset of the call that are not configured rules
Unresolved(rc, rulesetName) ==
    {rc.Rulesets[rulesetName].Rules[i] : i \in DOMAIN rc.Rulesets[rulesetName].Rules}
        \ DOMAIN rc.Rules

\* C22: when a name of the rule list of a ruleset is not a configured rule,
\* the ruleset does not pass, whatever its selector and the policy, and the
\* name is reported as an error: by the call or in the result recorded for it.
C22_UnresolvedFailsClosed ==
    (RulesetCall /\ Unresolved(config, last.arg) # {})
        => /\ ~last.ruleset.Passed
           /\ \/ last.err # NoErr
              \/ \A n \in Unresolved(config, last.arg) :
                    /\ n \in DOMAIN last.ruleset.RuleResults
                    /\ last.ruleset.RuleResults[n].Error # NoErr


\* C23: when a program of the chain of a rule evaluates, without error, to a
\* value that is not a boolean, EvaluateRule returns Passed = false and the
\* Error of a rule that did not pass, also after programs that returned true.
C23_NonBooleanDoesNotPass ==
    (/\ RuleCall
     /\ last.err = NoErr
     /\ \E i \in DOMAIN last.evals : Out(last.evals[i]) = "N")
        => /\ ~last.rule.Passed
           /\ last.rule.Error.kind \in {"custom", "rule_did_not_pass"}

\* the order in which EvaluateRule is to evaluate the programs of rule n:
\* its parent, the parent of its parent, and so on, then n
ChainOrder(n) ==
    [i \in 1..(Len(engine.parents[n]) + 1) |->
        IF i <= Len(engine.parents[n]) THEN Ancestor(config.Rules, n, i) ELSE n]

\* C24: EvaluateRule evaluates the programs of a rule in the order parent,
\* further ancestors, the rule itself; no program is evaluated after one
\* that evaluates to false or raises a runtime error, and the program after
\* one that evaluates to true is evaluated.
C24_ChainOrderAndShortCircuit ==
    (RuleCall /\ last.err = NoErr) =>
        LET order == ChainOrder(last.arg)
            n     == Len(last.evals)
        IN  /\ Ancestor(config.Rules, last.arg, Len(order)) = ""
            /\ n \in 1..Len(order)
            /\ \A i \in 1..n : last.evals[i] = order[i]
            /\ \A i \in 1..(n - 1) : Out(last.evals[i]) \notin {"F", "E"}
            /\ n < Len(order) => Out(last.evals[n]) # "T"

C24_Witness ==
    \E b, c \in RuleNames :
        /\ RuleCall
        /\ IsChain3(last.arg, b, c)
        /\ Out(b) = "T"
        /\ Out(c) = "F"
        /\ Out(last.arg) = "T"
        /\ last.evals = <<b, c>>

C25_TimeoutIsCooperative ==
    BatchCall =>
        /\ \A n \in DOMAIN last.all :
              last.all[n] = EvaluateRulesetOp(config, engine, context, n).res
        /\ Cardinality(DOMAIN last.all)
              = IF last.fired = 0 THEN Len(last.order) ELSE last.fired - 1
        /\ last.fired > 1 => last.order[last.fired - 1] \in DOMAIN last.all
        /\ last.fired = 0 => last.err = NoErr

C25_Witness ==
    /\ BatchCall
    /\ Len(last.order) = 3
    /\ last.fired = 3
    /\ last.err = Err("timeout", last.order[3])
    /\ DOMAIN last.all = {last.order[1], last.order[2]}
    /\ last.order[2] = "rs2"
    /\ DOMAIN last.all["rs2"].RuleResults = {"A", "B"}


\* C29: the policy of every constructed engine has a positive
\* MaxExecutionTime, and EvaluateAllRulesets returns results and an error
\* and never crashes, also for a max_execution_time of "0s" or "-1s".
C29_BatchNeverCrashes ==
    /\ engine.status = "ready" => engine.policy.MaxExecutionTime > 0
    /\ last.op = "EvaluateAllRulesets" => engine.status # "panic"

\* C30: ApplyEnvironment of a known environment completes for every
\* configuration; a globals or custom_error_messages table the base does not
\* declare then holds exactly the entries of the environment.
C30_ApplyEnvironmentCompletes ==
    (ApplyCall /\ last.arg \in DOMAIN last.before.Environments) =>
        LET E == last.before.Environments[last.arg]
        IN  /\ engine.status # "panic"
            /\ last.before.Globals.isNil => config.Globals.kv = E.Globals.kv
            /\ last.before.ErrorHandling.CustomErrorMessages.isNil
                  => config.ErrorHandling.CustomErrorMessages.kv
                        = E.ErrorHandling.CustomErrorMessages.kv


WalkCall == last.op = "getRuleParents"

\* C27: getRuleParents ends for every rule table, after at most one step
\* for every rule name and one more, with the list of the ancestors of the
\* rule, or with the cycle error when the chain leads into a cycle, or with
\* the not-found error when it leaves the rule table.
C27_ParentsWalkTerminates ==
    WalkCall =>
        /\ last.steps <= Cardinality(DOMAIN config.Rules) + 1
        /\ \/ /\ last.err = NoErr
              /\ \A i \in DOMAIN last.parents :
                    last.parents[i] = Ancestor(config.Rules, last.arg, i)
              /\ Ancestor(config.Rules, last.arg, Len(last.parents) + 1) = ""
              /\ last.steps = Len(last.parents)
           \/ /\ last.err.kind = "circular"
              /\ LeadsToCycle(config.Rules, last.arg)
           \/ /\ last.err.kind = "extends_not_found"
              /\ Dangles(config.Rules, last.arg)

C27_Witness ==
    /\ WalkCall
    /\ last.err.kind = "circular"
    /\ last.steps = Cardinality(DOMAIN config.Rules) + 1
    /\ Cardinality(DOMAIN config.Rules) >= 3


\* a call of EvaluateRuleset on a configured ruleset that has returned to one
\* of the callers sharing the engine
SharedCall ==
    /\ last.op = "EvaluateRuleset"
    /\ last.caller \in Callers
    /\ last.arg \in DOMAIN config.Rulesets

\* the result recorded for the j-th member evaluated is what EvaluateRule
\* returns for it on the context ctx
MemberEvaluatedOn(j, ctx) ==
    last.ruleset.RuleResults[last.calls[j]]
        = EvaluateRuleOp(config, engine, ctx, last.calls[j]).res

\* a call of EvaluateAllRulesets that has returned to one of the callers
\* sharing the engine
SharedBatchCall ==
    /\ last.op = "EvaluateAllRulesets"
    /\ last.caller \in Callers

\* C26: the context is shared and read at every evaluation.  When one
\* SetContext runs between two member evaluations of a call of
\* EvaluateRuleset, the members before it are evaluated against the old
\* context and the members after it against the new one, and likewise for
\* the rulesets of EvaluateAllRulesets when it runs between two of them; a
\* call during which no SetContext runs returns what it returns when it runs
\* alone, whatever evaluations of other callers are interleaved with it.
C26_SharedContext ==
    /\ SharedCall =>
          /\ (last.sets = 0 /\ ~last.overlap)
                => last.ruleset
                      = EvaluateRulesetOp(config, engine, last.before, last.arg).res
          /\ (last.sets = 1 /\ ~last.overlap)
                => \A j \in DOMAIN last.calls :
                      IF j <= last.switch
                      THEN MemberEvaluatedOn(j, last.before)
                      ELSE MemberEvaluatedOn(j, last.after)
    /\ SharedBatchCall =>
          /\ (last.sets = 0 /\ ~last.overlap)
                => LET b == BatchLoop(config, engine, last.before, last.order,
                                      1, last.fired, <<>>)
                   IN  last.all = b.all /\ last.err = b.err
          /\ (last.sets = 1 /\ ~last.overlap /\ last.inner = 0)
                => \A j \in 1..Cardinality(DOMAIN last.all) :
                      last.all[last.order[j]]
                         = EvaluateRulesetOp(config, engine,
                                             IF j <= last.switch
                                             THEN last.before ELSE last.after,
                                             last.order[j]).res

\* a result that mixes two contexts: it is neither the result on the old
\* context nor the result on the new one
C26_Witness ==
    /\ SharedCall
    /\ last.sets = 1
    /\ ~last.overlap
    /\ last.switch = 1
    /\ Len(last.calls) = 2
    /\ last.ruleset # EvaluateRulesetOp(config, engine, last.before, last.arg).res
    /\ last.ruleset # EvaluateRulesetOp(config, engine, last.after, last.arg).res

====
